---------------------------- MODULE Spec2Model ----------------------------
(***************************************************************************)
(* A model of csv-visualizer (src/main.py): the table held by MainWindow,  *)
(* its segmentation into chunks, the per-column cache of unique values,    *)
(* the range selection and the bulk edit, and the plot's view limits.      *)
(*                                                                         *)
(* Conventions.                                                            *)
(*  - Python's None is the empty tuple <<>> and a present value x is <<x>>. *)
(*  - A text is a sequence of one-character strings, so that strip() and   *)
(*    str() are computed and not assumed.                                  *)
(*  - A cell is <<kind, text>>: <<"int", <<"1">>>> is the number 1 parsed  *)
(*    by read_csv, <<"str", <<"1">>>> is the string "1" written by an edit.*)
(*  - Row indices are 0-based as in the source; TLA+ sequences are 1-based,*)
(*    so row i of a column is series[i + 1].                               *)
(*  - View limits are integers in units of 1/1000 of a data unit.          *)
(*  - The thresholds of the source (45 000 rows per chunk, 90 000 rows     *)
(*    before chunking, 30 unique values, a head of 100 and a sample of     *)
(*    10 000 rows) are scaled down, keeping their order and the ratio      *)
(*    MAX_ROWS_BEFORE_CHUNK = 2 * CHUNK_SIZE, so that tables of a few rows *)
(*    reach every branch the thresholds decide.                            *)
(***************************************************************************)
EXTENDS Integers, Sequences, FiniteSets, TLC

VARIABLES
    df,                  \* MainWindow.df: None or the table
    current_csv_path,    \* MainWindow.current_csv_path
    has_unsaved_changes, \* MainWindow.has_unsaved_changes
    total_chunks,        \* MainWindow.total_chunks
    current_chunk,       \* MainWindow.current_chunk
    col_unique_cache,    \* MainWindow.col_unique_cache: column -> list or None
    cat_col,             \* cat_col_combo.currentText()
    selected_range,      \* MainWindow.selected_range: None or (start, end)
    apply_enabled,       \* apply_edit_btn.isEnabled()
    xlim,                \* canvas.ax.get_xlim()
    ylim,                \* canvas.ax.get_ylim()
    show_series_legend,  \* MainWindow._show_series_legend
    show_bg_legend,      \* MainWindow._show_bg_legend
    wheel_events,        \* wheel events handled since the last full redraw
    press_event,         \* PlotCanvas._press_event: None or the press's (xdata, ydata)
    cursor,              \* where the last button or motion event found the pointer
    mouse_moves,         \* motion events handled by the canvas
    edits,               \* edits applied to the table since it was loaded
    lastOp,              \* the handler that ran last, with its input
    arg,                 \* input of the function under check (pure specifications)
    res                  \* its result

vars == <<df, current_csv_path, has_unsaved_changes, total_chunks, current_chunk,
          col_unique_cache, cat_col, selected_range, apply_enabled, xlim, ylim,
          show_series_legend, show_bg_legend, wheel_events, press_event, cursor,
          mouse_moves, edits, lastOp, arg, res>>

appVars == <<df, current_csv_path, has_unsaved_changes, total_chunks, current_chunk,
             col_unique_cache, cat_col, selected_range, apply_enabled, xlim, ylim,
             show_series_legend, show_bg_legend, wheel_events>>

mouseVars == <<press_event, cursor, mouse_moves>>

-----------------------------------------------------------------------------
(* Bounds of the model *)

\* rows of the largest table a file holds
MaxRows == 5
\* length of the longest column handed to the analyzer on its own
MaxSeriesLen == 5
\* largest row count whose segmentation is checked on its own
MaxSegRows == 24
\* wheel events since the last full redraw
MaxZooms == 1
\* edits applied to one loaded table
MaxEdits == 1
\* motion events handled by the canvas
MaxMoves == 2
\* Longest sequence of category values given to the background scan
MaxSpanLen == 4
\* Largest palette asked of generate_palette
MaxPalette == 40

-----------------------------------------------------------------------------
(* Program constants (scaled, see above) *)

\* MainWindow.CHUNK_SIZE = 45_000
CHUNK_SIZE == 2
\* MainWindow.MAX_ROWS_BEFORE_CHUNK = 90_000
MAX_ROWS_BEFORE_CHUNK == 4
\* "> 30" in _calc_unique_values_up_to_30
MAX_UNIQUES == 2
\* min(100, n)
HEAD_ROWS == 3
\* min(10_000, n)
SAMPLE_ROWS == 4

-----------------------------------------------------------------------------
(* Values *)

None == <<>>
Some(x) == <<x>>
Val(o) == o[1]

Range(s) == {s[i] : i \in 1..Len(s)}

Min2(a, b) == IF a <= b THEN a ELSE b
Max2(a, b) == IF a >= b THEN a ELSE b

IntCell(d) == <<"int", <<d>>>>
StrCell(t) == <<"str", t>>

\* str(value): the digits of a number, the text of a string
str(cell) == cell[2]

\* Series.astype(str)
astype_str(series) == [i \in 1..Len(series) |-> str(series[i])]

\* Series.unique().tolist(): the distinct values in order of first appearance
RECURSIVE unique_from(_, _)
unique_from(s, acc) ==
    IF s = <<>> THEN acc
    ELSE unique_from(Tail(s),
                     IF Head(s) \in Range(acc) THEN acc ELSE Append(acc, Head(s)))

unique(s) == unique_from(s, <<>>)

\* Series.iloc[:k]
iloc_head(series, k) == SubSeq(series, 1, Min2(k, Len(series)))

\* The values at the positions pos (a set of 1-based positions), in row order.
\* Series.sample(size, random_state=0) draws size distinct positions; which
\* ones is the generator's business, so pos is an input, and only the number
\* of distinct values of the sample is read.
take_positions(series, pos) ==
    LET keep == SelectSeq([i \in 1..Len(series) |-> i], LAMBDA i : i \in pos)
    IN  [j \in 1..Len(keep) |-> series[keep[j]]]

\* The samples Series.sample(size) can draw from n rows
SampleSets(n, size) == {S \in SUBSET (1..n) : Cardinality(S) = size}

-----------------------------------------------------------------------------
(* MainWindow._calc_unique_values_up_to_30 *)

\* A slip: the full-column pass is dropped and the sample's values are returned
calc_unique_values_sample_only(series, pos) ==
    LET n == Len(series) IN
    IF n = 0 THEN Some(<<>>)
    ELSE LET head_n == Min2(HEAD_ROWS, n)
             head_vals == astype_str(iloc_head(series, head_n))
             sample_size == Min2(SAMPLE_ROWS, n)
             sample_vals == IF sample_size > head_n
                            THEN astype_str(take_positions(series, pos))
                            ELSE head_vals
         IN IF Len(unique(head_vals)) > MAX_UNIQUES THEN None
            ELSE IF Len(unique(sample_vals)) > MAX_UNIQUES THEN None
            ELSE Some(unique(sample_vals))

calc_unique_values_up_to_30(series, pos) ==
    LET n == Len(series) IN
    IF n = 0 THEN Some(<<>>)
    ELSE LET head_n == Min2(HEAD_ROWS, n)
             head_vals == astype_str(iloc_head(series, head_n))
             head_uniques == unique(head_vals)
             sample_size == Min2(SAMPLE_ROWS, n)
             sample_vals == IF sample_size > head_n
                            THEN astype_str(take_positions(series, pos))
                            ELSE head_vals
             sample_uniques == unique(sample_vals)
             full_uniques == unique(astype_str(series))
         IN IF Len(head_uniques) > MAX_UNIQUES THEN None
            ELSE IF Len(sample_uniques) > MAX_UNIQUES THEN None
            ELSE IF Len(full_uniques) > MAX_UNIQUES THEN None
            ELSE Some(full_uniques)

\* The samples the analyzer may draw for a column of n rows
AnalyzerSamples(n) == SampleSets(n, Min2(SAMPLE_ROWS, n))

-----------------------------------------------------------------------------
(* Segmentation: MainWindow.load_csv_file (585-590), _get_current_df_slice *)

\* math.ceil(n / c)
ceil_div(n, c) == IF n % c = 0 THEN n \div c ELSE (n \div c) + 1

\* A slip: floor instead of ceil loses the last, partial chunk
total_chunks_floor(n_rows) ==
    IF n_rows > MAX_ROWS_BEFORE_CHUNK THEN n_rows \div CHUNK_SIZE ELSE 1

\* load_csv_file, lines 585-589
total_chunks_for(n_rows) ==
    IF n_rows > MAX_ROWS_BEFORE_CHUNK THEN ceil_div(n_rows, CHUNK_SIZE) ELSE 1

\* _get_current_df_slice: the half-open row range <<start, end>> of the slice
slice_bounds(chunk, total, n_rows) ==
    IF total = 1 THEN <<0, n_rows>>
    ELSE <<chunk * CHUNK_SIZE, Min2((chunk + 1) * CHUNK_SIZE, n_rows)>>

-----------------------------------------------------------------------------
(* The table and the files read_csv can return *)

ColumnOrder == <<"a", "b">>

Digits == <<"0", "1", "2", "3", "4", "5", "6", "7", "8", "9">>

\* A column of n number cells whose row i (0-based) holds f(i)
NumberColumn(n, f) == [i \in 1..n |-> IntCell(Digits[f[i - 1] + 1])]

\* DataFrame.columns, in file order
columns_of(table) == SelectSeq(ColumnOrder, LAMBDA c : c \in DOMAIN table)

\* len(df)
len_of(table) == Len(table["a"])

\* What pd.read_csv(path) returns for the files of the model.  data.csv has
\* an enumerable column "a" (0,1,0,1,...) and a column "b" (0,1,2,0,...) with
\* too many values, and is either empty or long enough to be chunked;
\* other.csv is short enough to be shown whole and has the one column "a"
\* (0,0,1,1,...).
Paths == {"data.csv", "other.csv"}

FileTables(path) ==
    IF path = "data.csv"
    THEN {[c \in {"a", "b"} |->
             IF c = "a" THEN NumberColumn(n, [i \in 0..n |-> i % 2])
                        ELSE NumberColumn(n, [i \in 0..n |-> i % 3])] : n \in {0, MaxRows}}
    ELSE {[c \in {"a"} |-> NumberColumn(MaxRows - 2, [i \in 0..MaxRows |-> (i \div 2) % 3])]}

-----------------------------------------------------------------------------
(* Texts typed into the editable combo box *)

\* str.strip(): leading and trailing blanks removed
RECURSIVE lstrip(_)
lstrip(t) == IF t # <<>> /\ Head(t) = " " THEN lstrip(Tail(t)) ELSE t

RECURSIVE rstrip(_)
rstrip(t) ==
    IF t # <<>> /\ t[Len(t)] = " " THEN rstrip(SubSeq(t, 1, Len(t) - 1)) ELSE t

\* A slip: the text is used as typed
strip_missing(t) == t

strip(t) == rstrip(lstrip(t))

\* What the user may have typed when Apply is clicked
EditTexts == {<<>>, <<" ">>, <<" ", "z", " ">>}

-----------------------------------------------------------------------------
(* The plot: what a full redraw leaves as view limits *)

\* Matplotlib's autoscale of data spanning lo..hi (data units): a 5% margin
\* on each side, and a fixed margin around a single value.
auto_limits(lo, hi) ==
    IF lo = hi THEN <<1000 * lo - 55, 1000 * lo + 55>>
    ELSE <<1000 * lo - 50 * (hi - lo), 1000 * hi + 50 * (hi - lo)>>

\* The number a cell plots as: its value for a number, nothing for a string
DigitValue(d) == CHOOSE k \in 0..9 : Digits[k + 1] = d

plotted_values(series) ==
    {DigitValue(series[i][2][1]) : i \in {j \in 1..Len(series) : series[j][1] = "int"}}

SetMin(S) == CHOOSE x \in S : \A y \in S : x <= y
SetMax(S) == CHOOSE x \in S : \A y \in S : x >= y

\* The current slice of one column: df.iloc[start:end]
slice_of(series, chunk, total) ==
    LET b == slice_bounds(chunk, total, Len(series))
    IN  SubSeq(series, b[1] + 1, b[2])

\* plot_data_with_background: ax.clear() and the plot of the slice; x is the
\* slice's own index 0..len-1, y the first column (redraw_plot, line 741)
full_xlim(table, chunk, total) ==
    auto_limits(0, Len(slice_of(table["a"], chunk, total)) - 1)

full_ylim(table, chunk, total) ==
    LET ys == plotted_values(slice_of(table["a"], chunk, total))
    IN  IF ys = {} THEN <<-55, 55>> ELSE auto_limits(SetMin(ys), SetMax(ys))

\* A slip: the redraw keeps the limits it finds
redraw_keeps_limits(lims, table, chunk, total) == lims

\* MainWindow.redraw_plot, as the limits <<xlim, ylim>> it leaves: those it
\* found for no table or an empty one (it returns at once), else the full
\* extent of the slice, since plot_data_with_background clears the axes
redraw_plot(lims, table, chunk, total) ==
    IF table = None \/ len_of(Val(table)) = 0
    THEN lims
    ELSE <<full_xlim(Val(table), chunk, total), full_ylim(Val(table), chunk, total)>>

\* Whether redraw_plot draws (and so forgets the wheel's zoom)
redraws(table) == table # None /\ len_of(Val(table)) > 0

-----------------------------------------------------------------------------
(* MainWindow: construction *)

\* The first item of the column combo boxes ("- none -" with dashes in the source)
NONE_ITEM == "- none -"

Op(name, text) == [op |-> name, text |-> text]

\* MainWindow.__init__ (lines 251-258, 344) and the empty axes of PlotCanvas
InitApp ==
    /\ df = None
    /\ current_csv_path = None
    /\ has_unsaved_changes = FALSE
    /\ total_chunks = 1
    /\ current_chunk = 0
    /\ col_unique_cache = [c \in {} |-> None]
    /\ cat_col = ""
    /\ selected_range = None
    /\ apply_enabled = FALSE
    /\ xlim = <<0, 1000>>
    /\ ylim = <<0, 1000>>
    /\ show_series_legend = TRUE
    /\ show_bg_legend = TRUE
    /\ wheel_events = 0
    /\ press_event = None
    /\ cursor = None
    /\ mouse_moves = 0
    /\ edits = 0
    /\ lastOp = Op("init", <<>>)

Init == InitApp /\ arg = None /\ res = None

\* What a handler that redraws leaves of the limits and of the wheel's count
Redrawn(table, chunk, total) ==
    LET lims == redraw_plot(<<xlim, ylim>>, table, chunk, total)
    IN  /\ xlim' = lims[1]
        /\ ylim' = lims[2]
        /\ wheel_events' = IF redraws(table) THEN 0 ELSE wheel_events

-----------------------------------------------------------------------------
(* MainWindow.load_csv_file *)

\* lines 554-557: a fresh cache with one entry per column
build_cache(table, pos) ==
    [c \in DOMAIN table |-> calc_unique_values_up_to_30(table[c], pos)]

\* A slip: the path is recorded before the file is parsed
on_load_error_path_first(path) ==
    /\ current_csv_path' = Some(path)
    /\ UNCHANGED <<df, has_unsaved_changes, total_chunks, current_chunk,
                   col_unique_cache, cat_col, selected_range, apply_enabled,
                   xlim, ylim, show_series_legend, show_bg_legend, wheel_events>>

\* lines 544-546: read_csv raised, self.df was not assigned, the handler returns
on_load_error(path) == UNCHANGED appVars

\* lines 690-710 and 790-805, as run by the column combo's currentTextChanged:
\* without a category column the selection is dropped and Apply disabled
update_edit_mode(col_name, table) ==
    IF col_name # NONE_ITEM /\ table # None /\ col_name \in DOMAIN Val(table)
    THEN UNCHANGED <<selected_range, apply_enabled>>
    ELSE selected_range' = None /\ apply_enabled' = FALSE

\* parsed is what pd.read_csv(path) gives: None when it raises.  Refilling
\* cat_col_combo (lines 567-569) leaves it on its first item and fires
\* on_cat_column_changed.
load_csv_file(path, parsed, pos) ==
    IF parsed = None THEN on_load_error(path)
    ELSE LET table == Val(parsed)
             n_rows == len_of(table)
         IN  /\ df' = parsed
             /\ current_csv_path' = Some(path)
             /\ has_unsaved_changes' = FALSE
             /\ col_unique_cache' = build_cache(table, pos)
             /\ cat_col' = NONE_ITEM
             /\ update_edit_mode(NONE_ITEM, parsed)
             /\ total_chunks' = total_chunks_for(n_rows)
             /\ current_chunk' = 0
             /\ Redrawn(parsed, 0, total_chunks_for(n_rows))
             /\ UNCHANGED <<show_series_legend, show_bg_legend>>

-----------------------------------------------------------------------------
(* MainWindow.save_csv, save_csv_as *)

\* chosen is the path the dialog returns (None: cancelled), ok whether to_csv
\* returned without raising
save_csv_as(chosen, ok) ==
    IF df = None \/ chosen = None \/ ~ok THEN UNCHANGED appVars
    ELSE /\ current_csv_path' = chosen
         /\ has_unsaved_changes' = FALSE
         /\ UNCHANGED <<df, total_chunks, current_chunk, col_unique_cache, cat_col,
                        selected_range, apply_enabled, xlim, ylim,
                        show_series_legend, show_bg_legend, wheel_events>>

\* A slip: the flag is cleared before to_csv is called
save_csv_flag_first(chosen, ok) ==
    IF df = None THEN UNCHANGED appVars
    ELSE /\ has_unsaved_changes' = FALSE
         /\ current_csv_path' = IF current_csv_path = None /\ ok THEN chosen
                                 ELSE current_csv_path
         /\ UNCHANGED <<df, total_chunks, current_chunk, col_unique_cache, cat_col,
                        selected_range, apply_enabled, xlim, ylim,
                        show_series_legend, show_bg_legend, wheel_events>>

save_csv(chosen, ok) ==
    IF df = None THEN UNCHANGED appVars
    ELSE IF current_csv_path = None THEN save_csv_as(chosen, ok)
    ELSE IF ok
         THEN /\ has_unsaved_changes' = FALSE
              /\ UNCHANGED <<df, current_csv_path, total_chunks, current_chunk,
                             col_unique_cache, cat_col, selected_range,
                             apply_enabled, xlim, ylim, show_series_legend,
                             show_bg_legend, wheel_events>>
         ELSE UNCHANGED appVars

-----------------------------------------------------------------------------
(* Segment navigation *)

\* _get_current_df_slice, as the length of the slice
current_slice_len ==
    IF df = None THEN 0
    ELSE LET b == slice_bounds(current_chunk, total_chunks, len_of(Val(df)))
         IN  b[2] - b[1]

\* A slip: the selection is left as it is
clear_selection_forgotten == UNCHANGED <<selected_range, apply_enabled>>

\* MainWindow._clear_selection
clear_selection == selected_range' = None /\ apply_enabled' = FALSE

\* lines 664-667, 671-674, 679-682
go_to_chunk(new_chunk) ==
    /\ current_chunk' = new_chunk
    /\ Redrawn(df, new_chunk, total_chunks)
    /\ clear_selection
    /\ UNCHANGED <<df, current_csv_path, has_unsaved_changes, total_chunks,
                   col_unique_cache, cat_col, show_series_legend, show_bg_legend>>

prev_segment ==
    IF current_chunk > 0 THEN go_to_chunk(current_chunk - 1) ELSE UNCHANGED appVars

next_segment ==
    IF current_chunk < total_chunks - 1 THEN go_to_chunk(current_chunk + 1)
    ELSE UNCHANGED appVars

\* A slip: the requested value is not brought into 1..total_chunks
on_segment_spin_changed_unclamped(value) ==
    IF value - 1 # current_chunk THEN go_to_chunk(value - 1)
    ELSE UNCHANGED appVars

on_segment_spin_changed(value) ==
    LET new_chunk == Max2(1, Min2(value, total_chunks)) - 1
    IN  IF new_chunk # current_chunk THEN go_to_chunk(new_chunk)
        ELSE UNCHANGED appVars

-----------------------------------------------------------------------------
(* The category column and the range selection *)

on_cat_column_changed(col_name) ==
    /\ cat_col' = col_name
    /\ update_edit_mode(col_name, df)
    /\ UNCHANGED <<df, current_csv_path, has_unsaved_changes, total_chunks,
                   current_chunk, col_unique_cache, xlim, ylim,
                   show_series_legend, show_bg_legend, wheel_events>>

\* int(round(x)) for x = x2 / 2: Python rounds a half to the even neighbour
py_round(x2) ==
    IF x2 % 2 = 0 THEN x2 \div 2
    ELSE LET f == (x2 - 1) \div 2 IN IF f % 2 = 0 THEN f ELSE f + 1

\* MainWindow.on_range_selected
on_range_selected(start_idx, end_idx) ==
    LET s0 == IF start_idx > end_idx THEN end_idx ELSE start_idx
        e0 == IF start_idx > end_idx THEN start_idx ELSE end_idx
        s1 == IF s0 < 0 THEN 0 ELSE s0
        e1 == IF e0 >= current_slice_len THEN current_slice_len - 1 ELSE e0
        chunk_offset == current_chunk * CHUNK_SIZE
        actual == IF total_chunks = 1 THEN <<s1, e1>>
                  ELSE <<chunk_offset + s1, chunk_offset + e1>>
    IN  /\ selected_range' = Some(actual)
        /\ apply_enabled' = TRUE
        /\ UNCHANGED <<df, current_csv_path, has_unsaved_changes, total_chunks,
                       current_chunk, col_unique_cache, cat_col, xlim, ylim,
                       show_series_legend, show_bg_legend, wheel_events>>

\* PlotCanvas._on_select: the span's ends, in half data units
on_select(xmin2, xmax2) == on_range_selected(py_round(xmin2), py_round(xmax2))

-----------------------------------------------------------------------------
(* MainWindow.apply_edit_to_selection *)

\* A slip: the end row is left out, as a Python slice would
loc_assign_end_excluded(series, start_idx, end_idx, value) ==
    [i \in 1..Len(series) |->
        IF start_idx <= i - 1 /\ i - 1 < end_idx THEN value ELSE series[i]]

\* df.loc[start_idx:end_idx, col] = value on read_csv's RangeIndex: the rows
\* whose label lies between the two, both included; none when there is none
loc_assign(series, start_idx, end_idx, value) ==
    [i \in 1..Len(series) |->
        IF start_idx <= i - 1 /\ i - 1 <= end_idx THEN value ELSE series[i]]

\* A slip: the limits are not put back after the redraw
limits_not_restored(saved, drawn) == drawn

\* lines 865-871: the limits read before redraw_plot are set again after it
restore_limits(saved, drawn) == saved

\* A slip: the entry of the edited column is not recomputed
refresh_cache_skipped(cache, table, col, pos) == cache

\* lines 850-851
refresh_cache(cache, table, col, pos) ==
    [cache EXCEPT ![col] = calc_unique_values_up_to_30(table[col], pos)]

\* text is edit_value_combo.currentText() at the click, pos the sample drawn
apply_edit_to_selection(text, pos) ==
    IF df = None \/ selected_range = None THEN UNCHANGED appVars
    ELSE IF cat_col = NONE_ITEM \/ cat_col \notin DOMAIN Val(df)
    THEN UNCHANGED appVars
    ELSE LET new_value == strip(text) IN
         IF new_value = <<>> THEN UNCHANGED appVars
         ELSE LET start_idx == Val(selected_range)[1]
                  end_idx == Val(selected_range)[2]
                  table == [Val(df) EXCEPT ![cat_col] =
                               loc_assign(@, start_idx, end_idx, StrCell(new_value))]
                  saved == <<xlim, ylim>>
                  drawn == redraw_plot(saved, Some(table), current_chunk, total_chunks)
                  lims == restore_limits(saved, drawn)
              IN  /\ df' = Some(table)
                  /\ has_unsaved_changes' = TRUE
                  /\ col_unique_cache' = refresh_cache(col_unique_cache, table, cat_col, pos)
                  /\ xlim' = lims[1]
                  /\ ylim' = lims[2]
                  /\ clear_selection
                  /\ UNCHANGED <<current_csv_path, total_chunks, current_chunk,
                                 cat_col, show_series_legend, show_bg_legend,
                                 wheel_events>>

-----------------------------------------------------------------------------
(* The legends and the Plot button *)

plot_clicked ==
    /\ Redrawn(df, current_chunk, total_chunks)
    /\ UNCHANGED <<df, current_csv_path, has_unsaved_changes, total_chunks,
                   current_chunk, col_unique_cache, cat_col, selected_range,
                   apply_enabled, show_series_legend, show_bg_legend>>

on_toggle_series_legend(checked) ==
    /\ show_series_legend' = checked
    /\ Redrawn(df, current_chunk, total_chunks)
    /\ UNCHANGED <<df, current_csv_path, has_unsaved_changes, total_chunks,
                   current_chunk, col_unique_cache, cat_col, selected_range,
                   apply_enabled, show_bg_legend>>

on_toggle_bg_legend(checked) ==
    /\ show_bg_legend' = checked
    /\ Redrawn(df, current_chunk, total_chunks)
    /\ UNCHANGED <<df, current_csv_path, has_unsaved_changes, total_chunks,
                   current_chunk, col_unique_cache, cat_col, selected_range,
                   apply_enabled, show_series_legend>>

-----------------------------------------------------------------------------
(* PlotCanvas.on_scroll *)

\* (c - left) / scale for scale = num / den, to the unit of the limits
scaled(d, num, den) == (d * den) \div num

\* A slip: the limits are scaled about their middle, wherever the pointer is
zoom_limits_about_middle(lims, center, num, den) ==
    LET mid == (lims[1] + lims[2]) \div 2
    IN  <<mid - scaled(mid - lims[1], num, den),
          mid + scaled(lims[2] - mid, num, den)>>

\* PlotCanvas._zoom_limits, scale = num / den
zoom_limits(lims, center, num, den) ==
    <<center - scaled(center - lims[1], num, den),
      center + scaled(lims[2] - center, num, den)>>

\* center is event.xdata (event.ydata with Ctrl): None off the axes; up is
\* event.button == "up", giving scale 1.1, else 1 / 1.1
on_scroll(ctrl_pressed, up, center) ==
    LET num == IF up THEN 11 ELSE 10
        den == IF up THEN 10 ELSE 11
        cur == IF ctrl_pressed THEN ylim ELSE xlim
        c == IF center # None THEN Val(center) ELSE (cur[1] + cur[2]) \div 2
        new == zoom_limits(cur, c, num, den)
    IN  /\ IF ctrl_pressed THEN ylim' = new /\ UNCHANGED xlim
                           ELSE xlim' = new /\ UNCHANGED ylim
        /\ wheel_events' = wheel_events + 1
        /\ UNCHANGED <<df, current_csv_path, has_unsaved_changes, total_chunks,
                       current_chunk, col_unique_cache, cat_col, selected_range,
                       apply_enabled, show_series_legend, show_bg_legend>>

-----------------------------------------------------------------------------
(* The events.  Each runs one handler to its end; the sets name the inputs  *)
(* a specification draws from.                                              *)

Pure == UNCHANGED <<arg, res>>

\* No button or motion event reaches the canvas
NoMouse == UNCHANGED mouseVars

AllFiles == UNION {{<<path, table>> : table \in FileTables(path)} : path \in Paths}

LoadOk(files) ==
    \E f \in files : \E pos \in AnalyzerSamples(len_of(f[2])) :
        /\ load_csv_file(f[1], Some(f[2]), pos)
        /\ edits' = 0
        /\ lastOp' = Op("load", <<>>)
        /\ Pure /\ NoMouse

LoadFail ==
    \E path \in Paths \cup {"missing.csv"} :
        /\ load_csv_file(path, None, {})
        /\ lastOp' = Op("load_failed", <<>>)
        /\ UNCHANGED edits
        /\ Pure /\ NoMouse

\* What lastOp keeps of a save: whether there was a table, whether the
\* dialog, when one was shown, was cancelled, and whether to_csv raised
SaveOutcome(with_dialog, chosen, ok) ==
    IF df = None THEN "save_nothing"
    ELSE IF with_dialog /\ chosen = None THEN "save_cancelled"
    ELSE IF ok THEN "save" ELSE "save_failed"

SaveCsv ==
    \E chosen \in {None} \cup {Some(q) : q \in Paths}, ok \in BOOLEAN :
        /\ save_csv(chosen, ok)
        /\ lastOp' = Op(SaveOutcome(current_csv_path = None, chosen, ok), <<>>)
        /\ UNCHANGED edits
        /\ Pure /\ NoMouse

SaveCsvAs ==
    \E chosen \in {None} \cup {Some(q) : q \in Paths}, ok \in BOOLEAN :
        /\ save_csv_as(chosen, ok)
        /\ lastOp' = Op(SaveOutcome(TRUE, chosen, ok), <<>>)
        /\ UNCHANGED edits
        /\ Pure /\ NoMouse

\* What lastOp keeps of a navigation: whether the chunk changed
Moved == IF current_chunk' # current_chunk THEN <<"moved">> ELSE <<>>

PrevSegment ==
    /\ prev_segment
    /\ lastOp' = Op("navigate", Moved)
    /\ UNCHANGED edits
    /\ Pure /\ NoMouse

NextSegment ==
    /\ next_segment
    /\ lastOp' = Op("navigate", Moved)
    /\ UNCHANGED edits
    /\ Pure /\ NoMouse

SegmentSpin ==
    \E value \in 0..(total_chunks + 1) :
        /\ on_segment_spin_changed(value)
        /\ lastOp' = Op("navigate", Moved)
        /\ UNCHANGED edits
        /\ Pure /\ NoMouse

\* The combo offers "- none -" and the table's columns, and signals a change
CatColumnChanged(items) ==
    /\ df # None
    /\ \E col_name \in (items \cap ({NONE_ITEM} \cup DOMAIN Val(df))) \ {cat_col} :
        /\ on_cat_column_changed(col_name)
        /\ lastOp' = Op("cat_col", <<>>)
        /\ UNCHANGED edits
        /\ Pure /\ NoMouse

\* The drags a slice of slice_len rows can receive, as <<xmin, xmax>> in
\* half data units with xmin <= xmax: anywhere from one unit before the
\* slice to half a unit past its last row + 1
DragsAround(slice_len) ==
    {<<x, y>> : x \in (-2)..(2 * slice_len + 1), y \in (-2)..(2 * slice_len + 1)}
        \cap {d \in Int \X Int : d[1] <= d[2]}

\* The one drag across the whole slice and beyond
DragsAcross(slice_len) == {<<-1, 2 * slice_len>>}

\* The span selector exists while a category column is chosen (lines 167-178,
\* 794) and hands over xmin <= xmax, wherever on the axes the drag was
RangeSelected(drags) ==
    /\ df # None
    /\ cat_col \in DOMAIN Val(df)
    /\ \E d \in drags :
        /\ on_select(d[1], d[2])
        /\ lastOp' = Op("select", <<>>)
        /\ UNCHANGED edits
        /\ Pure /\ NoMouse

\* A click the handler turns down is not counted as an edit
ApplyEdit(texts) ==
    /\ \E text \in texts :
       \E pos \in AnalyzerSamples(IF df = None THEN 0 ELSE len_of(Val(df))) :
        /\ apply_edit_to_selection(text, pos)
        /\ edits' = IF df' # df \/ has_unsaved_changes' # has_unsaved_changes
                          \/ selected_range' # selected_range
                    THEN edits + 1 ELSE edits
        /\ edits' <= MaxEdits
        /\ lastOp' = Op("apply", text)
        /\ Pure /\ NoMouse

PlotClicked ==
    /\ plot_clicked
    /\ lastOp' = Op("plot", <<>>)
    /\ UNCHANGED edits
    /\ Pure /\ NoMouse

ToggleSeriesLegend ==
    /\ on_toggle_series_legend(~show_series_legend)
    /\ lastOp' = Op("legend", <<>>)
    /\ UNCHANGED edits
    /\ Pure /\ NoMouse

ToggleBgLegend ==
    /\ on_toggle_bg_legend(~show_bg_legend)
    /\ lastOp' = Op("legend", <<>>)
    /\ UNCHANGED edits
    /\ Pure /\ NoMouse

\* pointers: where the pointer may be at the wheel event, "off" the axes
\* or a "quarter" of the way along them
Scroll(pointers) ==
    /\ wheel_events < MaxZooms
    /\ \E ctrl_pressed \in BOOLEAN, up \in BOOLEAN, pointer \in pointers :
       LET cur == IF ctrl_pressed THEN ylim ELSE xlim
           center == IF pointer = "off" THEN None
                     ELSE Some(cur[1] + (cur[2] - cur[1]) \div 4)
       IN  /\ on_scroll(ctrl_pressed, up, center)
           /\ lastOp' = Op("scroll", <<IF ctrl_pressed THEN "ctrl" ELSE "plain",
                                        IF up THEN "up" ELSE "down", pointer>>)
           /\ UNCHANGED edits
           /\ Pure /\ NoMouse

-----------------------------------------------------------------------------
(* Spec: the table's life: load, select, edit, navigate, save *)

Next ==
    \/ LoadOk(AllFiles)
    \/ LoadFail
    \/ PrevSegment
    \/ NextSegment
    \/ SegmentSpin
    \/ CatColumnChanged({NONE_ITEM, "a", "b"})
    \/ RangeSelected(DragsAround(current_slice_len))
    \/ ApplyEdit(EditTexts)

Spec == Init /\ [][Next]_vars

-----------------------------------------------------------------------------
(* SpecView: the plot's limits under wheel, legends, navigation and edits *)

ViewFiles == {<<"data.csv", table>> : table \in FileTables("data.csv")}

ViewTexts == {<<"z">>}

NextView ==
    \/ LoadOk(ViewFiles)
    \/ Scroll({"off"})
    \/ ToggleSeriesLegend
    \/ ToggleBgLegend
    \/ PrevSegment
    \/ NextSegment
    \/ SegmentSpin
    \/ CatColumnChanged({"a"})
    \/ RangeSelected(DragsAcross(current_slice_len))
    \/ ApplyEdit(ViewTexts)

SpecView == Init /\ [][NextView]_vars

-----------------------------------------------------------------------------
(* SpecAnalyzer: _calc_unique_values_up_to_30 on every short column *)

AnalyzerCells == {IntCell("0"), IntCell("1"), StrCell(<<"1">>), StrCell(<<"z">>)}

AllSeries == UNION {[1..n -> AnalyzerCells] : n \in 0..MaxSeriesLen}

InitAnalyzer ==
    /\ InitApp
    /\ arg \in UNION {{[series |-> s, pos |-> p] : p \in AnalyzerSamples(Len(s))} :
                      s \in AllSeries}
    /\ res = None

Analyze ==
    /\ res = None
    /\ res' = Some(calc_unique_values_up_to_30(arg.series, arg.pos))
    /\ UNCHANGED <<appVars, mouseVars, edits, lastOp, arg>>

SpecAnalyzer == InitAnalyzer /\ [][Analyze]_vars

-----------------------------------------------------------------------------
(* SpecSegments: the chunk count of a table of n rows and its slices, taken  *)
(* one after the other as the navigation would                              *)

InitSegments ==
    /\ InitApp
    /\ arg \in 0..MaxSegRows
    /\ res = None

\* load_csv_file, lines 585-590
SegmentsLoad ==
    /\ res = None
    /\ res' = Some([total |-> total_chunks_for(arg), chunk |-> 0,
                    covered |-> {}, overlap |-> FALSE])
    /\ UNCHANGED <<appVars, mouseVars, edits, lastOp, arg>>

\* _get_current_df_slice for the next chunk
SegmentsSlice ==
    /\ res # None
    /\ Val(res).chunk < Val(res).total
    /\ LET r == Val(res)
           b == slice_bounds(r.chunk, r.total, arg)
           rows == b[1]..(b[2] - 1)
       IN  res' = Some([total |-> r.total, chunk |-> r.chunk + 1,
                        covered |-> r.covered \cup rows,
                        overlap |-> r.overlap \/ (rows \cap r.covered # {})])
    /\ UNCHANGED <<appVars, mouseVars, edits, lastOp, arg>>

NextSegments == SegmentsLoad \/ SegmentsSlice

SpecSegments == InitSegments /\ [][NextSegments]_vars

-----------------------------------------------------------------------------
(* Properties *)

IsBlank(t) == \A i \in 1..Len(t) : t[i] = " "

\* The step is an Apply click that passes every check of the handler
AppliedStep ==
    /\ lastOp'.op = "apply"
    /\ df # None
    /\ selected_range # None
    /\ cat_col \in DOMAIN Val(df)
    /\ ~IsBlank(lastOp'.text)

\* The chunk count the documentation gives for n rows
ExpectedSegments(n) ==
    IF n <= MAX_ROWS_BEFORE_CHUNK THEN 1
    ELSE CHOOSE k \in 1..n : (k - 1) * CHUNK_SIZE < n /\ n <= k * CHUNK_SIZE

\* C1: for every row count the chunk count is 1 up to MAX_ROWS_BEFORE_CHUNK
\* rows and ceil(n / CHUNK_SIZE) above, and the slices of chunks 0, 1, ...
\* cover the rows from 0 upwards without gap or overlap, all of [0, n) once
\* the last one is taken.
C1_SegmentsPartition ==
    res # None =>
        LET r == Val(res) IN
        /\ r.total = ExpectedSegments(arg)
        /\ ~r.overlap
        /\ r.covered = IF r.total = 1
                       THEN (IF r.chunk = 0 THEN {} ELSE 0..(arg - 1))
                       ELSE 0..(Min2(r.chunk * CHUNK_SIZE, arg) - 1)
        /\ (r.chunk = r.total => r.covered = 0..(arg - 1))

C1_Witness ==
    /\ res # None
    /\ Val(res).chunk = Val(res).total
    /\ Val(res).total >= 3
    /\ arg % CHUNK_SIZE # 0

\* The distinct stringified values of a column
StringValues(series) == {str(series[i]) : i \in 1..Len(series)}

\* C2: whatever the column, its order and the sample drawn, the analyzer
\* returns the list of exactly the column's distinct stringified values when
\* there are at most MAX_UNIQUES of them, and None when there are more.
C2_AnalyzerExact ==
    res # None =>
        LET r == Val(res)
            values == StringValues(arg.series)
        IN  IF Cardinality(values) <= MAX_UNIQUES
            THEN /\ r # None
                 /\ Range(Val(r)) = values
                 /\ Len(Val(r)) = Cardinality(values)
            ELSE r = None

\* A column the head and the sample both let through and the full pass rejects
C2_Witness ==
    /\ res # None
    /\ Val(res) = None
    /\ Len(arg.series) > SAMPLE_ROWS
    /\ Cardinality(StringValues(iloc_head(arg.series, HEAD_ROWS))) <= MAX_UNIQUES
    /\ Cardinality(StringValues(take_positions(arg.series, arg.pos))) <= MAX_UNIQUES

\* C3: an Apply click that passes the checks, with selection (start, end),
\* column c and value v, leaves the table with v in the rows start..end of c
\* and every other cell as it was, whichever chunk is shown.
C3_EditWritesRange ==
    [][AppliedStep =>
        /\ df' # None
        /\ DOMAIN Val(df') = DOMAIN Val(df)
        /\ \A c \in DOMAIN Val(df) :
            /\ Len(Val(df')[c]) = Len(Val(df)[c])
            /\ \A i \in 1..Len(Val(df)[c]) :
                Val(df')[c][i] =
                    IF /\ c = cat_col
                       /\ Val(selected_range)[1] <= i - 1
                       /\ i - 1 <= Val(selected_range)[2]
                    THEN StrCell(strip(lastOp'.text))
                    ELSE Val(df)[c][i]
    ]_vars

\* An edit made on a later chunk that wrote two rows, the last selected one included
C3_Witness ==
    /\ lastOp.op = "apply"
    /\ edits >= 1
    /\ current_chunk >= 1
    /\ df # None
    /\ \E c \in DOMAIN Val(df) :
        \E i \in 1..(Len(Val(df)[c]) - 1) :
            /\ i - 1 >= current_chunk * CHUNK_SIZE
            /\ Val(df)[c][i][1] = "str"
            /\ Val(df)[c][i + 1][1] = "str"

\* C4: after any selection gesture over a slice that has rows, the stored
\* range (start, end) has start <= end, both inside the table, the pair taken
\* from the chunk's offset lying inside the slice.
C4_SelectionInsideDataset ==
    (lastOp.op = "select" /\ selected_range # None /\ current_slice_len > 0) =>
        LET start_idx == Val(selected_range)[1]
            end_idx == Val(selected_range)[2]
            offset == IF total_chunks = 1 THEN 0 ELSE current_chunk * CHUNK_SIZE
        IN  /\ start_idx <= end_idx
            /\ 0 <= start_idx /\ end_idx < len_of(Val(df))
            /\ 0 <= start_idx - offset /\ end_idx - offset < current_slice_len

\* C5: after an Apply click that passes the checks on a table that has rows,
\* the cache entry of the edited column is the analyzer's result on the column
\* as edited, holding the new value when it is a list, and every other entry
\* is as it was.
C5_CacheAfterEdit ==
    [][(AppliedStep /\ len_of(Val(df)) > 0) =>
        /\ DOMAIN col_unique_cache' = DOMAIN col_unique_cache
        /\ \A pos \in AnalyzerSamples(len_of(Val(df'))) :
            col_unique_cache'[cat_col] =
                calc_unique_values_up_to_30(Val(df')[cat_col], pos)
        /\ col_unique_cache'[cat_col] # None =>
            strip(lastOp'.text) \in Range(Val(col_unique_cache'[cat_col]))
        /\ \A c \in DOMAIN col_unique_cache \ {cat_col} :
            col_unique_cache'[c] = col_unique_cache[c]
    ]_vars

\* C6: a navigation that changes the chunk leaves no selection, Apply
\* disabled and the limits at the full extent of the new chunk's slice.
C6_NavigationResets ==
    [][(lastOp'.op = "navigate" /\ current_chunk' # current_chunk) =>
        /\ selected_range' = None
        /\ ~apply_enabled'
        /\ xlim' = full_xlim(Val(df'), current_chunk', total_chunks')
        /\ ylim' = full_ylim(Val(df'), current_chunk', total_chunks')
    ]_vars

\* A navigation that moved to a later chunk of an edited table
C6_Witness ==
    /\ lastOp = Op("navigate", <<"moved">>)
    /\ has_unsaved_changes
    /\ ylim = full_ylim(Val(df), current_chunk, total_chunks)
    /\ current_chunk >= 1
    /\ selected_range = None
    /\ xlim = full_xlim(Val(df), current_chunk, total_chunks)

\* C7: an Apply click that passes the checks leaves the limits what they
\* were before it, whatever the wheel did to them.
C7_EditKeepsLimits ==
    [][AppliedStep => (xlim' = xlim /\ ylim' = ylim)]_vars

\* An edit made while the plot was zoomed
C7_Witness ==
    /\ lastOp.op = "apply"
    /\ edits >= 1
    /\ wheel_events >= 1
    /\ df # None
    /\ <<xlim, ylim>> # <<full_xlim(Val(df), current_chunk, total_chunks),
                          full_ylim(Val(df), current_chunk, total_chunks)>>

\* C8: toggling either legend leaves the limits what they were before it.
C8_LegendKeepsLimits ==
    [][lastOp'.op = "legend" => (xlim' = xlim /\ ylim' = ylim)]_vars

\* C9: an Apply click with no category column chosen, or with a text that is
\* blank once trimmed, changes neither the table, the cache, the unsaved
\* flag, the selection nor the limits.
C9_RejectedEditChangesNothing ==
    [][(/\ lastOp'.op = "apply"
        /\ \/ df = None
           \/ cat_col \notin DOMAIN Val(df)
           \/ IsBlank(lastOp'.text)) =>
        UNCHANGED <<df, col_unique_cache, has_unsaved_changes, selected_range,
                    apply_enabled, xlim, ylim>>
    ]_vars

\* Apply was clicked with a selection, a column and a blank text
C9_Witness ==
    /\ lastOp.op = "apply"
    /\ lastOp.text = <<" ">>
    /\ df # None
    /\ cat_col \in DOMAIN Val(df)
    /\ selected_range # None
    /\ Val(selected_range)[1] <= Val(selected_range)[2]

\* C10: a load whose parse fails leaves the table, its path, the cache, the
\* chunk count and current chunk, the unsaved flag and the selection as
\* they were.
C10_FailedLoadKeepsState ==
    [][lastOp'.op = "load_failed" =>
        UNCHANGED <<df, current_csv_path, col_unique_cache, total_chunks,
                    current_chunk, has_unsaved_changes, selected_range>>
    ]_vars

\* A failed load over an edited table, on a later chunk, with a selection
C10_Witness ==
    /\ lastOp.op = "load_failed"
    /\ df # None
    /\ has_unsaved_changes
    /\ current_chunk >= 1
    /\ selected_range # None

-----------------------------------------------------------------------------
(* generate_palette: n colours of hue i / n, saturation 0.6 and value 1.0,   *)
(* as "#rrggbb" texts.  A channel is a fraction num / den.                   *)

HexDigits == <<"0", "1", "2", "3", "4", "5", "6", "7",
               "8", "9", "a", "b", "c", "d", "e", "f">>

\* round(num / den * 255), Python's round: to the nearest, a tie to the even
channel_byte(num, den) ==
    LET x == 255 * num
        q == x \div den
        r == x % den
    IN  IF 2 * r > den \/ (2 * r = den /\ q % 2 = 1) THEN q + 1 ELSE q

\* format(byte, "02x")
format_02x(byte) == <<HexDigits[(byte \div 16) + 1], HexDigits[(byte % 16) + 1]>>

\* mcolors.hsv_to_rgb((i / n, 0.6, 1.0)): the three channels over 10 * n
hsv_to_rgb(i, n) ==
    LET sector == (6 * i) \div n
        r == (6 * i) % n
        v == 10 * n
        p == 4 * n
        q == 10 * n - 6 * r
        t == 4 * n + 6 * r
    IN  CASE sector % 6 = 0 -> <<v, t, p>>
          [] sector % 6 = 1 -> <<q, v, p>>
          [] sector % 6 = 2 -> <<p, v, t>>
          [] sector % 6 = 3 -> <<p, q, v>>
          [] sector % 6 = 4 -> <<t, p, v>>
          [] OTHER -> <<v, p, q>>

\* mcolors.to_hex(rgb) for the channels over den
to_hex(rgb, den) ==
    <<"#">> \o format_02x(channel_byte(rgb[1], den))
            \o format_02x(channel_byte(rgb[2], den))
            \o format_02x(channel_byte(rgb[3], den))

\* A slip: the hue is taken over n + 1, so the colours depend on more than (i, n)
generate_palette_shifted(n) ==
    IF n <= 0 THEN <<>>
    ELSE [k \in 1..n |-> to_hex(hsv_to_rgb(k - 1, n + 1), 10 * (n + 1))]

\* generate_palette(n); entry k of the list is colour i = k - 1
generate_palette(n) ==
    IF n <= 0 THEN <<>>
    ELSE [k \in 1..n |-> to_hex(hsv_to_rgb(k - 1, n), 10 * n)]

-----------------------------------------------------------------------------
(* PlotCanvas._draw_category_background: the run-length scan that shades     *)
(* the runs of equal category values.  A span is <<xmin2, xmax2, facecolor>> *)
(* with the two ends in half rows: axvspan(start_idx - 0.5, i - 0.5).        *)

RECURSIVE span_scan(_, _, _, _, _, _, _)
\* the body of the loop for i, with the spans drawn so far
span_scan(cat_vals, no_bg_value, color_map, i, current_val, start_idx, spans) ==
    LET n == Len(cat_vals) IN
    IF i > n THEN spans
    ELSE LET end_of_run == (i = n) \/ (cat_vals[i + 1] # current_val)
             drawn == IF /\ end_of_run
                         /\ ~(no_bg_value # None /\ current_val = Val(no_bg_value))
                         /\ current_val \in DOMAIN color_map
                      THEN Append(spans, <<2 * start_idx - 1, 2 * i - 1,
                                           color_map[current_val]>>)
                      ELSE spans
         IN  IF end_of_run /\ i < n
             THEN span_scan(cat_vals, no_bg_value, color_map, i + 1,
                            cat_vals[i + 1], i, drawn)
             ELSE span_scan(cat_vals, no_bg_value, color_map, i + 1,
                            current_val, start_idx, drawn)

\* A slip: the run's start is not moved when a new run begins
draw_category_background_start_kept(cat_vals, no_bg_value, color_map) ==
    IF Len(cat_vals) = 0 THEN <<>>
    ELSE LET runs == span_scan(cat_vals, no_bg_value, color_map, 1, cat_vals[1], 0, <<>>)
         IN  [k \in 1..Len(runs) |-> <<-1, runs[k][2], runs[k][3]>>]

\* the spans axvspan is called with, in the order of the calls
draw_category_background(cat_vals, no_bg_value, color_map) ==
    IF Len(cat_vals) = 0 THEN <<>>
    ELSE span_scan(cat_vals, no_bg_value, color_map, 1, cat_vals[1], 0, <<>>)

-----------------------------------------------------------------------------
(* SpecSpans: the scan on every short sequence of values, every sentinel     *)
(* and every colour map                                                      *)

SpanValues == {<<"x">>, <<"y">>, <<"z">>}

AllCatVals == UNION {[1..n -> SpanValues] : n \in 0..MaxSpanLen}

\* the maps from some of the values to colours
AllColorMaps ==
    {[v \in D |-> generate_palette(3)[IF v = <<"x">> THEN 1
                                      ELSE IF v = <<"y">> THEN 2 ELSE 3]] :
        D \in SUBSET SpanValues}

InitSpans ==
    /\ InitApp
    /\ arg \in [cat_vals : AllCatVals,
                no_bg_value : {None} \cup {Some(v) : v \in {<<"x">>, <<"q">>}},
                color_map : AllColorMaps]
    /\ res = None

DrawBackground ==
    /\ res = None
    /\ res' = Some(draw_category_background(arg.cat_vals, arg.no_bg_value,
                                            arg.color_map))
    /\ UNCHANGED <<appVars, mouseVars, edits, lastOp, arg>>

SpecSpans == InitSpans /\ [][DrawBackground]_vars

\* the rows a span covers
span_rows(span) == {r \in 0..MaxSpanLen + 1 : span[1] < 2 * r /\ 2 * r < span[2]}

\* C11: whatever the values, the sentinel and the colour map, the spans come
\* in increasing order without overlap, each is one maximal run of one value
\* in that value's colour, and together they cover exactly the rows whose
\* value is in the colour map and is not the sentinel; no row, no span.
C11_SpansAreTheColoredRuns ==
    res # None =>
        LET spans == Val(res)
            vals == arg.cat_vals
            n == Len(vals)
            colored == {r \in 0..(n - 1) :
                          /\ vals[r + 1] \in DOMAIN arg.color_map
                          /\ ~(arg.no_bg_value # None /\ vals[r + 1] = Val(arg.no_bg_value))}
        IN  /\ \A k \in 1..(Len(spans) - 1) : spans[k][2] <= spans[k + 1][1]
            /\ \A k \in 1..Len(spans) :
                LET rows == span_rows(spans[k])
                    first == (spans[k][1] + 1) \div 2
                    last == (spans[k][2] - 1) \div 2
                IN  /\ rows = first..last /\ first <= last
                    /\ \A r \in rows : /\ vals[r + 1] = vals[first + 1]
                                       /\ spans[k][3] = arg.color_map[vals[r + 1]]
                    /\ first = 0 \/ vals[first] # vals[first + 1]
                    /\ last = n - 1 \/ vals[last + 2] # vals[last + 1]
            /\ UNION {span_rows(spans[k]) : k \in 1..Len(spans)} = colored
            /\ (n = 0 => spans = <<>>)

\* Two runs of the same value drawn around a run of the sentinel
C11_Witness ==
    /\ res # None
    /\ Len(Val(res)) >= 2
    /\ Val(res)[1][3] = Val(res)[2][3]
    /\ arg.no_bg_value # None
    /\ \E i \in 1..Len(arg.cat_vals) : arg.cat_vals[i] = Val(arg.no_bg_value)

-----------------------------------------------------------------------------
(* PlotCanvas.on_button_press, on_button_release, on_mouse_move: the pan     *)

\* Where the pointer can be over the axes: <<fx, fy>>, in quarters of their
\* width and of their height
CursorPlaces == {<<1, 1>>, <<3, 3>>}

\* The data coordinate shown f quarters of the way between the limits
data_at(lims, f) == lims[1] + ((lims[2] - lims[1]) * f) \div 4

\* The event matplotlib delivers for the pointer at place: xdata and ydata
\* are None off the axes and the data coordinates under the pointer on them
mouse_event(place) ==
    IF place = None THEN [xdata |-> None, ydata |-> None]
    ELSE [xdata |-> Some(data_at(xlim, Val(place)[1])),
          ydata |-> Some(data_at(ylim, Val(place)[2]))]

\* a double click calls toggle_compact_callback, which changes the layout only
on_button_press(dblclick, button, event) ==
    /\ press_event' = IF ~dblclick /\ button \in {1, 2} THEN Some(event)
                      ELSE press_event
    /\ UNCHANGED appVars

on_button_release ==
    /\ press_event' = None
    /\ UNCHANGED appVars

\* A slip: the limits follow the pointer instead of moving against it
on_mouse_move_with_pointer(event) ==
    IF \/ press_event = None
       \/ event.xdata = None \/ event.ydata = None
       \/ Val(press_event).xdata = None \/ Val(press_event).ydata = None
    THEN UNCHANGED <<appVars, press_event>>
    ELSE LET dx == Val(event.xdata) - Val(Val(press_event).xdata)
             dy == Val(event.ydata) - Val(Val(press_event).ydata)
         IN  /\ xlim' = <<xlim[1] + dx, xlim[2] + dx>>
             /\ ylim' = <<ylim[1] + dy, ylim[2] + dy>>
             /\ UNCHANGED <<df, current_csv_path, has_unsaved_changes, total_chunks,
                            current_chunk, col_unique_cache, cat_col, selected_range,
                            apply_enabled, show_series_legend, show_bg_legend,
                            wheel_events, press_event>>

\* With a press made off the axes the press's xdata is None and the
\* subtraction raises TypeError: the handler ends there, nothing is changed.
on_mouse_move(event) ==
    IF press_event = None THEN UNCHANGED <<appVars, press_event>>
    ELSE IF event.xdata = None \/ event.ydata = None
    THEN UNCHANGED <<appVars, press_event>>
    ELSE IF Val(press_event).xdata = None \/ Val(press_event).ydata = None
    THEN UNCHANGED <<appVars, press_event>>
    ELSE LET dx == Val(event.xdata) - Val(Val(press_event).xdata)
             dy == Val(event.ydata) - Val(Val(press_event).ydata)
         IN  /\ xlim' = <<xlim[1] - dx, xlim[2] - dx>>
             /\ ylim' = <<ylim[1] - dy, ylim[2] - dy>>
             /\ UNCHANGED <<df, current_csv_path, has_unsaved_changes, total_chunks,
                            current_chunk, col_unique_cache, cat_col, selected_range,
                            apply_enabled, show_series_legend, show_bg_legend,
                            wheel_events, press_event>>

AllPlaces == {None} \cup {Some(c) : c \in CursorPlaces}

ButtonPress ==
    \E dblclick \in BOOLEAN, button \in {1, 3}, place \in AllPlaces :
        /\ on_button_press(dblclick, button, mouse_event(place))
        /\ cursor' = place
        /\ lastOp' = Op("press", <<>>)
        /\ UNCHANGED <<mouse_moves, edits>>
        /\ Pure

ButtonRelease ==
    /\ on_button_release
    /\ lastOp' = Op("release", <<>>)
    /\ UNCHANGED <<cursor, mouse_moves, edits>>
    /\ Pure

MouseMove ==
    /\ mouse_moves < MaxMoves
    /\ \E place \in AllPlaces :
        /\ on_mouse_move(mouse_event(place))
        /\ cursor' = place
    /\ mouse_moves' = mouse_moves + 1
    /\ lastOp' = Op("move", <<>>)
    /\ UNCHANGED edits
    /\ Pure

-----------------------------------------------------------------------------
(* SpecPan: the plot's limits under the wheel and the drag *)

\* the table of data.csv that has rows
PanFiles == {f \in ViewFiles : len_of(f[2]) > 0}

\* A file is opened from the menu, with no button held over the canvas
LoadBetweenDrags ==
    /\ press_event = None
    /\ LoadOk(PanFiles)

NextPan ==
    \/ LoadBetweenDrags
    \/ Scroll({"off"})
    \/ ButtonPress
    \/ ButtonRelease
    \/ MouseMove

SpecPan == Init /\ [][NextPan]_vars

\* The step is a motion event over the axes during a drag begun over the axes
PanStep ==
    /\ lastOp'.op = "move"
    /\ press_event # None
    /\ Val(press_event).xdata # None
    /\ cursor' # None

\* C12: after each motion event of a drag, whatever the zoom and however
\* many events came before, the data point that was under the pointer at the
\* press is under the pointer again; both pairs of limits have moved by the
\* opposite of the pointer's move in data space and kept their widths.
C12_PanKeepsPointUnderCursor ==
    [][PanStep =>
        LET x0 == Val(Val(press_event).xdata)
            y0 == Val(Val(press_event).ydata)
            dx == data_at(xlim, Val(cursor')[1]) - x0
            dy == data_at(ylim, Val(cursor')[2]) - y0
        IN  /\ data_at(xlim', Val(cursor')[1]) = x0
            /\ data_at(ylim', Val(cursor')[2]) = y0
            /\ xlim' = <<xlim[1] - dx, xlim[2] - dx>>
            /\ ylim' = <<ylim[1] - dy, ylim[2] - dy>>
            /\ xlim'[2] - xlim'[1] = xlim[2] - xlim[1]
            /\ ylim'[2] - ylim'[1] = ylim[2] - ylim[1]
    ]_vars

\* The second motion event of a drag over a zoomed plot, the limits away
\* from the full extent and the pressed point under the pointer
C12_Witness ==
    /\ lastOp.op = "move"
    /\ mouse_moves >= 2
    /\ wheel_events >= 1
    /\ df # None
    /\ press_event # None
    /\ Val(press_event).xdata # None
    /\ cursor # None
    /\ data_at(xlim, Val(cursor)[1]) = Val(Val(press_event).xdata)
    /\ xlim[1] # full_xlim(Val(df), current_chunk, total_chunks)[1]
    /\ ylim[1] # full_ylim(Val(df), current_chunk, total_chunks)[1]

-----------------------------------------------------------------------------
(* SpecZoom: loads and navigation through every view of every file, and    *)
(* the wheel over each, the pointer on the axes or off them                  *)

NextZoom ==
    \/ LoadOk(AllFiles)
    \/ LoadFail
    \/ Scroll({"off", "quarter"})
    \/ PlotClicked
    \/ PrevSegment
    \/ NextSegment
    \/ SegmentSpin

SpecZoom == Init /\ [][NextZoom]_vars

\* |x|
Abs(x) == IF x < 0 THEN -x ELSE x

\* C13: a wheel event with focus c and scale s (11/10 up, 10/11 down) turns
\* the limits (left, right) into (c - (c - left) / s, c + (right - c) / s),
\* c keeping its place between them to within one unit of the limits; the
\* x-limits are the ones changed without Ctrl and the y-limits with it, the
\* other pair is left alone, and c is the middle of the limits when the
\* pointer is off the axes.
C13_ZoomAboutFocus ==
    [][lastOp'.op = "scroll" =>
        LET ctrl == lastOp'.text[1] = "ctrl"
            up == lastOp'.text[2] = "up"
            old == IF ctrl THEN ylim ELSE xlim
            new == IF ctrl THEN ylim' ELSE xlim'
            c == IF lastOp'.text[3] = "off" THEN (old[1] + old[2]) \div 2
                 ELSE old[1] + (old[2] - old[1]) \div 4
            num == IF up THEN 11 ELSE 10
            den == IF up THEN 10 ELSE 11
        IN  /\ new[1] = c - ((c - old[1]) * den) \div num
            /\ new[2] = c + ((old[2] - c) * den) \div num
            /\ Abs((c - new[1]) * (old[2] - old[1]) - (c - old[1]) * (new[2] - new[1]))
                   < old[2] - old[1]
            /\ IF up THEN new[2] - new[1] < old[2] - old[1]
                     ELSE new[2] - new[1] > old[2] - old[1]
            /\ IF ctrl THEN xlim' = xlim ELSE ylim' = ylim
    ]_vars

\* The wheel turned up with Ctrl and the pointer a quarter up the axes of a
\* loaded table: the y-limits are narrower than the full extent, the
\* x-limits are the full extent
C13_Witness ==
    /\ lastOp = Op("scroll", <<"ctrl", "up", "quarter">>)
    /\ df # None
    /\ len_of(Val(df)) > 0
    /\ xlim = full_xlim(Val(df), current_chunk, total_chunks)
    /\ ylim[2] - ylim[1] < full_ylim(Val(df), current_chunk, total_chunks)[2]
                           - full_ylim(Val(df), current_chunk, total_chunks)[1]

\* C14: an Apply click that passes the checks leaves no selection and Apply
\* disabled; a selection comes into being by a selection gesture only; and
\* an Apply click made while there is no selection changes neither the
\* table, the cache nor the unsaved flag.
C14_SelectionEndsWithEdit ==
    [][/\ AppliedStep => (selected_range' = None /\ ~apply_enabled')
       /\ (selected_range' # None /\ selected_range' # selected_range)
              => lastOp'.op = "select"
       /\ (lastOp'.op = "apply" /\ selected_range = None)
              => UNCHANGED <<df, col_unique_cache, has_unsaved_changes, selected_range>>
    ]_vars

\* Apply clicked again, with a blank text, on an edited table that has no
\* selection any more
C14_Witness ==
    /\ lastOp = Op("apply", <<" ">>)
    /\ edits >= 1
    /\ has_unsaved_changes
    /\ selected_range = None
    /\ df # None
    /\ cat_col \in DOMAIN Val(df)
    /\ \E i \in 1..len_of(Val(df)) : Val(df)[cat_col][i] = StrCell(<<"z">>)

-----------------------------------------------------------------------------
(* SpecSave: loads, edits, navigation and saves, the saves failing or not   *)

\* The drag across the whole slice and beyond, and the drag over its first row
DragsFew(slice_len) == {<<-1, 2 * slice_len>>, <<0, 1>>}

\* A blank text and a value no file holds
SaveTexts == {<<" ">>, <<"z">>}

NextSave ==
    \/ LoadOk(AllFiles)
    \/ LoadFail
    \/ SaveCsv
    \/ SaveCsvAs
    \/ PrevSegment
    \/ NextSegment
    \/ CatColumnChanged({NONE_ITEM, "a"})
    \/ RangeSelected(DragsFew(current_slice_len))
    \/ ApplyEdit(SaveTexts)

SpecSave == Init /\ [][NextSave]_vars

\* C15: every Apply click that passes the checks leaves the unsaved flag
\* set; the flag is cleared by a load that succeeds or a save that succeeds
\* and by nothing else, and such a save clears it; a save that fails leaves
\* the table, the path and the flag as they were.
C15_UnsavedFlag ==
    [][/\ AppliedStep => has_unsaved_changes'
       /\ (has_unsaved_changes /\ ~has_unsaved_changes')
              => lastOp'.op \in {"load", "save"}
       /\ lastOp'.op \in {"load", "save"} => ~has_unsaved_changes'
       /\ lastOp'.op = "save" => df' = df
       /\ lastOp'.op = "save_failed"
              => UNCHANGED <<df, current_csv_path, has_unsaved_changes>>
    ]_vars

\* A save has failed on an edited table: the flag is still set
C15_Witness ==
    /\ lastOp.op = "save_failed"
    /\ df # None
    /\ current_csv_path # None
    /\ has_unsaved_changes
    /\ edits >= 1

-----------------------------------------------------------------------------
(* The colour map of a render, and sorted() as the combo boxes use it *)

\* The characters of the model's texts, in code point order
Chars == <<" ", "#", "0", "1", "2", "3", "4", "5", "6", "7", "8", "9",
           "a", "b", "c", "d", "e", "f", "q", "x", "y", "z">>

\* ord(ch), as a rank
ord(ch) == CHOOSE k \in 1..Len(Chars) : Chars[k] = ch

RECURSIVE str_lt(_, _)
\* s < t for two Python strings
str_lt(s, t) ==
    IF t = <<>> THEN FALSE
    ELSE IF s = <<>> THEN TRUE
    ELSE IF ord(Head(s)) # ord(Head(t)) THEN ord(Head(s)) < ord(Head(t))
    ELSE str_lt(Tail(s), Tail(t))

RECURSIVE sorted(_)
\* sorted(uniqs) for a list of distinct strings: the least first
sorted(uniqs) ==
    IF uniqs = <<>> THEN <<>>
    ELSE LET least == CHOOSE v \in Range(uniqs) :
                          \A w \in Range(uniqs) \ {v} : str_lt(v, w)
         IN  <<least>> \o sorted(SelectSeq(uniqs, LAMBDA u : u # least))

\* redraw_plot, lines 770-776: the map from the cached values other than
\* no_bg_val to the colours of the palette, in the order of the cached list
bg_color_map(uniqs, no_bg_val) ==
    LET filtered == SelectSeq(uniqs, LAMBDA u : no_bg_val = None \/ u # Val(no_bg_val))
        palette == generate_palette(Len(filtered))
    IN  [v \in Range(filtered) |->
            palette[CHOOSE i \in 1..Len(filtered) : filtered[i] = v]]

\* C16: the list cached for an enumerable column is in sorted order, and
\* for every sentinel the colour map built from it gives the i-th of the
\* sorted values other than the sentinel the i-th colour of the palette, so
\* that it is the same whatever the order of the rows.
C16_SortedDomainAndColors ==
    (res # None /\ Val(res) # None) =>
        LET uniqs == Val(Val(res)) IN
        /\ uniqs = sorted(uniqs)
        /\ \A no_bg_val \in {None} \cup {Some(v) : v \in Range(uniqs)} :
            bg_color_map(uniqs, no_bg_val) = bg_color_map(sorted(uniqs), no_bg_val)

-----------------------------------------------------------------------------
(* SpecPalette: generate_palette called twice for every small n *)

InitPalette ==
    /\ InitApp
    /\ arg \in (-2)..MaxPalette
    /\ res = None

\* the first call
GeneratePalette ==
    /\ res = None
    /\ res' = Some(<<generate_palette(arg)>>)
    /\ UNCHANGED <<appVars, mouseVars, edits, lastOp, arg>>

\* the second call, its result kept next to the first
GeneratePaletteAgain ==
    /\ res # None
    /\ Len(Val(res)) = 1
    /\ res' = Some(Append(Val(res), generate_palette(arg)))
    /\ UNCHANGED <<appVars, mouseVars, edits, lastOp, arg>>

NextPalette == GeneratePalette \/ GeneratePaletteAgain

SpecPalette == InitPalette /\ [][NextPalette]_vars

\* C17: generate_palette(n) is the empty list for n <= 0 and otherwise n
\* colours, the i-th the "#rrggbb" of hue i / n, saturation 0.6 and value 1
\* (so the first is "#ff6666" and every colour has a channel at 255 and one
\* at 102), and a second call returns the list of the first.
C17_PaletteIsDeterministic ==
    res # None =>
        \A call \in 1..Len(Val(res)) :
            LET colors == Val(res)[call] IN
            /\ arg <= 0 => colors = <<>>
            /\ arg > 0 =>
                /\ Len(colors) = arg
                /\ colors[1] = <<"#", "f", "f", "6", "6", "6", "6">>
                /\ \A k \in 1..arg :
                    /\ colors[k] = to_hex(hsv_to_rgb(k - 1, arg), 10 * arg)
                    /\ Len(colors[k]) = 7
                    /\ \E ch \in {2, 4, 6} : SubSeq(colors[k], ch, ch + 1) = <<"f", "f">>
                    /\ \E ch \in {2, 4, 6} : SubSeq(colors[k], ch, ch + 1) = <<"6", "6">>
            /\ colors = Val(res)[1]

\* Two calls for the 30 colours of the largest enumerable column
C17_Witness ==
    /\ res # None
    /\ Len(Val(res)) = 2
    /\ arg = 30
    /\ Len(Val(res)[2]) = 30

\* C18: after every handler, whatever ran before, the cache has an entry for
\* each column of the table and no other, and each entry is what the
\* analyzer returns for the column as it now is, whatever sample it draws.
C18_CacheMatchesTable ==
    IF df = None THEN DOMAIN col_unique_cache = {}
    ELSE /\ DOMAIN col_unique_cache = DOMAIN Val(df)
         /\ \A c \in DOMAIN Val(df) :
              \A pos \in AnalyzerSamples(len_of(Val(df))) :
                  col_unique_cache[c] = calc_unique_values_up_to_30(Val(df)[c], pos)

\* An edit has put its value into the list cached for the edited column
C18_Witness ==
    /\ lastOp.op = "apply"
    /\ edits >= 1
    /\ df # None
    /\ cat_col \in DOMAIN Val(df)
    /\ col_unique_cache[cat_col] # None
    /\ <<"z">> \in Range(Val(col_unique_cache[cat_col]))
    /\ \E i \in 1..len_of(Val(df)) : Val(df)[cat_col][i] = StrCell(<<"z">>)

\* C19: after every handler, whatever files were loaded over one another
\* and whatever values were asked of the spin box, 0 <= current_chunk <
\* total_chunks, total_chunks is the chunk count of the table now loaded,
\* and the current slice of a table that has rows has rows.
C19_CurrentChunkInRange ==
    /\ 0 <= current_chunk
    /\ current_chunk < total_chunks
    /\ total_chunks = IF df = None THEN 1 ELSE ExpectedSegments(len_of(Val(df)))
    /\ (df # None /\ len_of(Val(df)) > 0) => current_slice_len > 0

\* The spin box has moved the view to the last, partial chunk of a table
C19_Witness ==
    /\ lastOp = Op("navigate", <<"moved">>)
    /\ df # None
    /\ total_chunks >= 3
    /\ current_chunk = total_chunks - 1
    /\ current_slice_len > 0
    /\ current_slice_len < CHUNK_SIZE

=============================================================================
